---- MODULE Spec2Model ----
(***************************************************************************)
(* Model of the ClickHouse chatbot front-end: the response normaliser      *)
(* (app.py format_and_display_response), the Streamlit chat session loop   *)
(* (app.py main, export_to_excel) and the config loader                    *)
(* (utils.py read_properties_file).                                        *)
(*                                                                         *)
(* Strings of the program are TLA+ strings; the cross-mark emoji the       *)
(* program prefixes to its messages is written "[X]".                      *)
(***************************************************************************)
EXTENDS Integers, Sequences, FiniteSets, TLC

VARIABLES
    \* ---- chat session (app.py main) ----
    history,          \* st.session_state["history"]: list of message strings
    export_data,      \* st.session_state['export_data']: present flag + DataFrame
    error_log,        \* error_log.txt: the blocks appended so far
    pc,               \* "Idle" (script run finished) or "Running" (inside db_chain.run)
    user_input,       \* text of the submission being processed
    last,             \* locals of the last script run: event, input, response, error
    memory,           \* ConversationBufferMemory of the current db_chain
    chain_id,         \* how many times create_conversational_chain has been called
    prompt_history,   \* the {history} text given to the prompt at the last db_chain.run
    download_offered, \* sidebar shows the "Download Excel File" link
    events,           \* number of user interactions so far (bounded)
    turns,            \* number of db_chain.run calls that have completed
    \* ---- response normaliser applied to one value ----
    norm_in,          \* the response value
    norm_out,         \* outcome of format_and_display_response(norm_in)
    \* ---- config loader applied to one file ----
    cfg_file,         \* the properties file on disk
    cfg_out           \* outcome of read_properties_file

sessionVars == <<history, export_data, error_log, pc, user_input, last, memory,
                 chain_id, prompt_history, download_offered, events, turns>>
normVars == <<norm_in, norm_out>>
cfgVars == <<cfg_file, cfg_out>>
vars == <<sessionVars, normVars, cfgVars>>

----------------------------------------------------------------------------
(* Bounds of the model *)

MaxRows == 2      \* longest list / tuple result enumerated
MaxArity == 2     \* longest row tuple enumerated
MaxEvents == 3    \* user interactions per session

----------------------------------------------------------------------------
(* Python values returned by db_chain.run                                  *)
(* A value is a record: t = type tag, s = text of a scalar, d = the        *)
(* (key, value) pairs of a dict in insertion order, items = the elements   *)
(* of a list or tuple.  An element of a list/tuple is itself such a record *)
(* whose items (for a row tuple) are cell texts.                           *)

Keys == {"count", "name"}
Cells == {"1", "42"}

PyNone == [t |-> "none", s |-> "", d |-> <<>>, items |-> <<>>]
PyStr(x) == [t |-> "str", s |-> x, d |-> <<>>, items |-> <<>>]
PyInt(x) == [t |-> "int", s |-> x, d |-> <<>>, items |-> <<>>]
PyBool(x) == [t |-> "bool", s |-> x, d |-> <<>>, items |-> <<>>]
PyDict(pairs) == [t |-> "dict", s |-> "", d |-> pairs, items |-> <<>>]
PyList(xs) == [t |-> "list", s |-> "", d |-> <<>>, items |-> xs]
PyTuple(xs) == [t |-> "tuple", s |-> "", d |-> <<>>, items |-> xs]

Range(f) == {f[i] : i \in DOMAIN f}

SeqsUpTo(S, n) == UNION {[1..k -> S] : k \in 0..n}

\* dicts over Keys: every insertion order of every subset of the keys
DictPairs == {p \in SeqsUpTo(Keys \X Cells, Cardinality(Keys)) :
                 \A i, j \in DOMAIN p : i # j => p[i][1] # p[j][1]}
Dicts == {PyDict(p) : p \in DictPairs}
RowTuples == {PyTuple(c) : c \in SeqsUpTo(Cells, MaxArity)}
Scalars == {PyStr(""), PyStr("hello"), PyInt("0"), PyInt("42"),
            PyBool("False"), PyBool("True")}

DictKeys(v) == [i \in DOMAIN v.d |-> v.d[i][1]]
DictGet(v, k) == LET i == CHOOSE i \in DOMAIN v.d : v.d[i][1] = k IN v.d[i][2]

\* a list or tuple whose elements are all of one kind
Homogeneous == SeqsUpTo(Dicts, MaxRows) \cup SeqsUpTo(RowTuples, MaxRows)
                 \cup SeqsUpTo(Scalars, MaxRows)

Values == {PyNone} \cup Scalars \cup Dicts
            \cup {PyList(xs) : xs \in Homogeneous}
            \cup {PyTuple(xs) : xs \in Homogeneous}

\* Python truthiness: bool(value)
Truthy(v) ==
    CASE v.t = "none" -> FALSE
      [] v.t = "str" -> v.s # ""
      [] v.t = "int" -> v.s # "0"
      [] v.t = "bool" -> v.s # "False"
      [] v.t = "dict" -> v.d # <<>>
      [] v.t \in {"list", "tuple"} -> v.items # <<>>

----------------------------------------------------------------------------
(* pandas DataFrame: ordered column names and rows of cell texts *)

EmptyDF == [columns |-> <<>>, rows |-> <<>>]

Digits == <<"0", "1", "2", "3", "4", "5", "6", "7", "8", "9">>

RECURSIVE JoinWith(_, _)
\* sep.join(xs)
JoinWith(xs, sep) ==
    IF xs = <<>> THEN ""
    ELSE IF Len(xs) = 1 THEN xs[1]
    ELSE xs[1] \o sep \o JoinWith(Tail(xs), sep)

\* text of a list/tuple element held in one cell
ReprElem(e) ==
    CASE e.t = "dict" ->
           "{" \o JoinWith([i \in DOMAIN e.d |-> e.d[i][1] \o ": " \o e.d[i][2]], ", ") \o "}"
      [] e.t = "tuple" -> "(" \o JoinWith(e.items, ", ") \o ")"
      [] OTHER -> e.s

\* str(value) of a scalar or of a tuple of elements
Repr(v) ==
    IF v.t = "tuple"
    THEN "(" \o JoinWith([i \in DOMAIN v.items |-> ReprElem(v.items[i])], ", ") \o ")"
    ELSE IF v.t = "none" THEN "None" ELSE v.s

RECURSIVE KeyUnion(_, _)
\* column order of DataFrame(list of dicts): keys in order of first appearance
KeyUnion(recs, acc) ==
    IF recs = <<>> THEN acc
    ELSE LET new == SelectSeq(DictKeys(Head(recs)), LAMBDA k : k \notin Range(acc))
         IN KeyUnion(Tail(recs), acc \o new)

Max(S) == CHOOSE x \in S : \A y \in S : y <= x

\* pd.DataFrame(list of dicts): one row per dict, a missing key reads NaN
DataFrameOfDicts(recs) ==
    LET cols == KeyUnion(recs, <<>>)
    IN [columns |-> cols,
        rows |-> [i \in DOMAIN recs |->
                    [c \in DOMAIN cols |->
                        IF cols[c] \in Range(DictKeys(recs[i]))
                        THEN DictGet(recs[i], cols[c]) ELSE "NaN"]]]

\* pd.DataFrame(list of tuples): positional columns 0..n-1, short rows padded with None
DataFrameOfTuples(recs) ==
    LET width == Max({Len(recs[i].items) : i \in DOMAIN recs})
    IN [columns |-> [c \in 1..width |-> Digits[c]],
        rows |-> [i \in DOMAIN recs |->
                    [c \in 1..width |->
                        IF c <= Len(recs[i].items) THEN recs[i].items[c] ELSE "None"]]]

\* pd.DataFrame({name: cells}): one column, one row per cell
DataFrameOfColumn(name, cells) ==
    [columns |-> <<name>>, rows |-> [i \in DOMAIN cells |-> <<cells[i]>>]]

----------------------------------------------------------------------------
(* app.py format_and_display_response                                      *)
(* Outcome: exc = exception raised ("" if none), warned = "No data         *)
(* available." shown, stored = session_state['export_data'] assigned, df.  *)

NoTable == [exc |-> "", warned |-> TRUE, stored |-> FALSE, df |-> EmptyDF]
Stored(df) == [exc |-> "", warned |-> FALSE, stored |-> TRUE, df |-> df]
Raised(e) == [exc |-> e, warned |-> FALSE, stored |-> FALSE, df |-> EmptyDF]

\* the list branch, lines 14-20: dispatch on the type of response[0]
ListBranch(response) ==
    IF response.items = <<>> THEN Raised("IndexError")
    ELSE IF response.items[1].t = "tuple" THEN Stored(DataFrameOfTuples(response.items))
    ELSE IF response.items[1].t = "dict" THEN Stored(DataFrameOfDicts(response.items))
    ELSE Stored(DataFrameOfColumn("Response",
                   [i \in DOMAIN response.items |-> ReprElem(response.items[i])]))

\* variant of Dispatch: line 24 written without the list around the scalar,
\* pd.DataFrame({'Response': response}), which pandas rejects
DispatchBareScalar(response) ==
    IF response.t = "list" THEN ListBranch(response)
    ELSE IF response.t = "dict"
    THEN Stored(DataFrameOfDicts(<<response>>))
    ELSE Raised("ValueError")

\* lines 14-24 without the falsy guard
Dispatch(response) ==
    IF response.t = "list" THEN ListBranch(response)
    ELSE IF response.t = "dict"
    THEN Stored(DataFrameOfDicts(<<response>>))
    ELSE Stored(DataFrameOfColumn("Response", <<Repr(response)>>))

\* variant of format_and_display_response: the falsy guard of lines 10-12 left out
FormatWithoutGuard(response) ==
    IF response.t = "list" THEN ListBranch(response)
    ELSE IF response.t = "dict"
    THEN Stored(DataFrameOfDicts(<<response>>))
    ELSE Stored(DataFrameOfColumn("Response", <<Repr(response)>>))

format_and_display_response(response) ==
    IF ~Truthy(response) THEN NoTable ELSE Dispatch(response)

----------------------------------------------------------------------------
(* app.py main: one Streamlit session.  Every user interaction re-executes *)
(* main() from its first line; st.rerun() starts one more execution.       *)

Inputs == {"show me total rows", "hi"}
BlankInputs == {"", "  "}
Errors == {"Connection refused"}

Row42 == PyDict(<< <<"count", "42">> >>)
Row1 == PyDict(<< <<"count", "1">> >>)

\* results db_chain.run hands back in the session runs
SessionResults ==
    {PyNone, PyStr("hello"), PyInt("0"), PyList(<<>>),
     PyList(<<Row42>>), PyTuple(<<Row42, Row1>>),
     PyDict(<< <<"name", "1">>, <<"count", "42">> >>),
     PyList(<<PyStr("hello")>>)}

NoExport == [present |-> FALSE, df |-> EmptyDF]
NoLocals == [ev |-> "start", input |-> "", response |-> PyNone, error |-> ""]

YouMsg(text) == "**You:** " \o text
BotMsg(text) == "**Bot:** " \o text
TableMsg == "**Bot:** (See table below)"
ErrorMessage(e) == "[X] Error: " \o e
LogEntry(e) == "\nTraceback (most recent call last): " \o e \o "\n"

\* user_input.strip() is truthy
NotBlank(text) == text \notin BlankInputs

\* line 105: isinstance(response, (list, tuple, dict)) and response
IsTabular(response) == response.t \in {"list", "tuple", "dict"} /\ Truthy(response)

\* utils.py create_conversational_chain: a new chain with a new, empty memory
FreshMemory == <<>>

\* export_to_excel: the link is rendered iff 'export_data' is in session_state
export_to_excel(export) == export.present

\* variant of ExceptBlock: error_log.txt opened with "w", which truncates it
ExceptBlockTruncatingLog(st, e) ==
    [history |-> Append(st.history, "**Bot:** " \o "[X] Error: " \o e),
     export |-> st.export,
     log |-> <<"\nTraceback (most recent call last): " \o e \o "\n">>]

\* lines 111-122: the except block
ExceptBlock(st, e) ==
    [history |-> Append(st.history, BotMsg(ErrorMessage(e))),
     export |-> st.export,
     log |-> Append(st.log, LogEntry(e))]

\* line 109: the Bot turn of a non-tabular response
PlainBotMsg(response) ==
    BotMsg(IF Truthy(response) THEN Repr(response) ELSE "No data found")

\* variant of TableBranch: the table is stored only when no export_data exists yet
TableBranchKeepFirst(st, response) ==
    LET fr == format_and_display_response(response)
        st2 == [st EXCEPT !.history = Append(st.history, TableMsg)]
    IN IF fr.exc # "" THEN ExceptBlock(st2, fr.exc)
       ELSE [st2 EXCEPT !.export = IF fr.stored /\ ~st.export.present
                                   THEN [present |-> TRUE, df |-> fr.df]
                                   ELSE st.export]

\* lines 105-107: the table branch
TableBranch(st, response) ==
    LET fr == format_and_display_response(response)
        st2 == [st EXCEPT !.history = Append(st.history, TableMsg)]
    IN IF fr.exc # "" THEN ExceptBlock(st2, fr.exc)
       ELSE [st2 EXCEPT !.export = IF fr.stored THEN [present |-> TRUE, df |-> fr.df]
                                   ELSE st.export]

\* variant of TryReturned: line 105 tests only `if response:`
TryReturnedAnyTruthy(st, input, response) ==
    LET st1 == [st EXCEPT !.history = Append(st.history, YouMsg(input))]
    IN IF Truthy(response) THEN TableBranch(st1, response)
       ELSE [st1 EXCEPT !.history = Append(st1.history, PlainBotMsg(response))]

\* lines 103-109: db_chain.run returned `response`
TryReturned(st, input, response) ==
    LET st1 == [st EXCEPT !.history = Append(st.history, YouMsg(input))]
    IN IF IsTabular(response) THEN TableBranch(st1, response)
       ELSE [st1 EXCEPT !.history = Append(st1.history, PlainBotMsg(response))]

\* lines 102, 111-122: db_chain.run raised e
TryRaised(st, input, e) == ExceptBlock(st, e)

\* lines 127-129: Clear Chat
ClearedHistory(h) == <<>>
ClearedExport(export) == export

SessionState == [history |-> history, export |-> export_data, log |-> error_log]

InitSession ==
    /\ history = <<>>
    /\ export_data = NoExport
    /\ error_log = <<>>
    /\ pc = "Idle"
    /\ user_input = ""
    /\ last = NoLocals
    /\ memory = FreshMemory
    /\ chain_id = 1
    /\ prompt_history = FreshMemory
    /\ download_offered = FALSE
    /\ events = 0
    /\ turns = 0

\* Send pressed with blank text: the script runs through to export_to_excel
SendBlank(input) ==
    /\ pc = "Idle" /\ events < MaxEvents
    /\ ~NotBlank(input)
    /\ events' = events + 1
    /\ chain_id' = chain_id + 1
    /\ memory' = FreshMemory
    /\ last' = [NoLocals EXCEPT !.ev = "blank", !.input = input]
    /\ download_offered' = export_to_excel(export_data)
    /\ UNCHANGED <<history, export_data, error_log, pc, user_input, prompt_history, turns>>
    /\ UNCHANGED <<normVars, cfgVars>>

\* Send pressed with text: the script builds the chain and enters db_chain.run
Send(input) ==
    /\ pc = "Idle" /\ events < MaxEvents
    /\ NotBlank(input)
    /\ events' = events + 1
    /\ chain_id' = chain_id + 1
    /\ memory' = FreshMemory
    /\ prompt_history' = memory'
    /\ user_input' = input
    /\ pc' = "Running"
    /\ UNCHANGED <<history, export_data, error_log, last, download_offered, turns>>
    /\ UNCHANGED <<normVars, cfgVars>>

\* the script run that st.rerun() starts: new chain, no button pressed
Rerun ==
    /\ chain_id' = chain_id + 1
    /\ memory' = FreshMemory
    /\ download_offered' = export_to_excel(export_data')
    /\ pc' = "Idle"

RunReturns(response) ==
    /\ pc = "Running"
    /\ LET st == TryReturned(SessionState, user_input, response)
       IN /\ history' = st.history
          /\ export_data' = st.export
          /\ error_log' = st.log
    /\ last' = [ev |-> "returned", input |-> user_input, response |-> response, error |-> ""]
    /\ turns' = turns + 1
    /\ Rerun
    /\ UNCHANGED <<user_input, prompt_history, events>>
    /\ UNCHANGED <<normVars, cfgVars>>

RunRaises(e) ==
    /\ pc = "Running"
    /\ LET st == TryRaised(SessionState, user_input, e)
       IN /\ history' = st.history
          /\ export_data' = st.export
          /\ error_log' = st.log
    /\ last' = [ev |-> "raised", input |-> user_input, response |-> PyNone, error |-> e]
    /\ turns' = turns + 1
    /\ Rerun
    /\ UNCHANGED <<user_input, prompt_history, events>>
    /\ UNCHANGED <<normVars, cfgVars>>

ClearChat ==
    /\ pc = "Idle" /\ events < MaxEvents
    /\ events' = events + 1
    /\ history' = ClearedHistory(history)
    /\ export_data' = ClearedExport(export_data)
    /\ last' = [NoLocals EXCEPT !.ev = "clear"]
    /\ chain_id' = chain_id + 2
    /\ memory' = FreshMemory
    /\ download_offered' = export_to_excel(export_data')
    /\ UNCHANGED <<error_log, pc, user_input, prompt_history, turns>>
    /\ UNCHANGED <<normVars, cfgVars>>

----------------------------------------------------------------------------
(* utils.py read_properties_file                                           *)
(* A file is: exists, the keys of its DEFAULT section, and whether the     *)
(* db_port text parses as an integer.                                      *)

required_keys == <<"db_host", "db_port", "db_user", "db_password", "db_name", "gemini_api_key">>
OtherKeys == {"debug"}

NoFile == [exists |-> FALSE, keys |-> {}, port_is_int |-> TRUE]
Files == {NoFile} \cup
         [exists : {TRUE}, keys : SUBSET (Range(required_keys) \cup OtherKeys),
          port_is_int : BOOLEAN]

CfgPending == [status |-> "pending", missing |-> <<>>, message |-> "", settings |-> {}]
CfgError(kind, missing, message) ==
    [status |-> kind, missing |-> missing, message |-> message, settings |-> {}]
CfgOk(keys) == [status |-> "ok", missing |-> <<>>, message |-> "", settings |-> keys]

\* line 22: "DEFAULT" in config; ConfigParser always has its default section
HasDefaultSection(file) == TRUE

\* variant of missing_keys: stops at the first missing key
first_missing_key(file) ==
    LET all == SelectSeq(required_keys, LAMBDA key : key \notin file.keys)
    IN IF all = <<>> THEN <<>> ELSE <<all[1]>>

\* line 26: the required keys the DEFAULT section lacks, in required_keys order
missing_keys(file) == SelectSeq(required_keys, LAMBDA key : key \notin file.keys)

read_properties_file(file) ==
    IF ~file.exists
    THEN CfgError("FileNotFoundError", <<>>, "[X] The file 'config.properties' does not exist.")
    ELSE IF ~HasDefaultSection(file)
    THEN CfgError("KeyError", <<>>, "[X] Missing 'DEFAULT' section in config file. Ensure the file is correctly formatted.")
    ELSE IF missing_keys(file) # <<>>
    THEN CfgError("KeyError", missing_keys(file),
                  "[X] Missing keys in config file: " \o JoinWith(missing_keys(file), ", "))
    ELSE IF ~file.port_is_int
    THEN CfgError("ValueError", <<>>, "invalid literal for int() with base 10")
    ELSE CfgOk(Range(required_keys))

----------------------------------------------------------------------------
(* Specifications *)

Pending == [exc |-> "pending", warned |-> FALSE, stored |-> FALSE, df |-> EmptyDF]

IdleNorm == norm_in = PyNone /\ norm_out = Pending
IdleCfg == cfg_file = NoFile /\ cfg_out = CfgPending

\* the chat session
Init == InitSession /\ IdleNorm /\ IdleCfg

Next ==
    \/ \E input \in BlankInputs : SendBlank(input)
    \/ \E input \in Inputs : Send(input)
    \/ \E response \in SessionResults : RunReturns(response)
    \/ \E e \in Errors : RunRaises(e)
    \/ ClearChat

Spec == Init /\ [][Next]_vars

\* the normaliser applied once to any value
InitNorm == InitSession /\ IdleCfg /\ norm_in \in Values /\ norm_out = Pending

Normalize ==
    /\ norm_out = Pending
    /\ norm_out' = format_and_display_response(norm_in)
    /\ UNCHANGED <<norm_in, sessionVars, cfgVars>>

NextNorm == Normalize

SpecNorm == InitNorm /\ [][NextNorm]_vars

\* the config loader applied once to any file
InitCfg == InitSession /\ IdleNorm /\ cfg_file \in Files /\ cfg_out = CfgPending

LoadConfig ==
    /\ cfg_out = CfgPending
    /\ cfg_out' = read_properties_file(cfg_file)
    /\ UNCHANGED <<cfg_file, sessionVars, normVars>>

NextCfg == LoadConfig

SpecCfg == InitCfg /\ [][NextCfg]_vars

----------------------------------------------------------------------------
(* Properties of the chat session (checked under Spec) *)

LastMsg(h) == h[Len(h)]
IsBotMsg(m) == \E text \in {Repr(r) : r \in SessionResults}
                           \cup {"No data found", "(See table below)"}
                           \cup {ErrorMessage(e) : e \in Errors} : m = BotMsg(text)

\* C1: after Clear Chat, whatever came before, History is empty, ExportBuffer
\* is absent and the download is no longer offered.
C1_ClearDropsHistoryAndExport ==
    last.ev = "clear" =>
        /\ history = <<>>
        /\ ~export_data.present
        /\ ~download_offered

\* C2: a submission whose db_chain.run raises ends with History's last element
\* the Bot turn carrying the error text, the error log one entry longer (earlier
\* entries kept), and the session back in Idle.
C2_FailedTurn ==
    [][(pc = "Running" /\ last'.ev = "raised") =>
          /\ history' # <<>>
          /\ LastMsg(history') = BotMsg(ErrorMessage(last'.error))
          /\ Len(error_log') = Len(error_log) + 1
          /\ SubSeq(error_log', 1, Len(error_log)) = error_log
          /\ pc' = "Idle"]_vars

\* C2 witness: a turn failed and was logged, and a later submission was
\* accepted and processed to completion.
C2_Witness ==
    /\ pc = "Idle" /\ last.ev = "returned"
    /\ Len(error_log) = 1
    /\ \E i \in 1..(Len(history) - 1) : \E e \in Errors : history[i] = BotMsg(ErrorMessage(e))

\* C3: the User turn is in History before db_chain.run is invoked, and after
\* the turn, success or failure, History ends with that User turn followed by
\* the turn's single Bot turn.
C3_UserTurnFirst ==
    /\ pc = "Running" => (history # <<>> /\ LastMsg(history) = YouMsg(user_input))
    /\ (pc = "Idle" /\ last.ev \in {"returned", "raised"}) =>
          /\ Len(history) >= 2
          /\ history[Len(history) - 1] = YouMsg(last.input)
          /\ IsBotMsg(LastMsg(history))

\* C4: the chain serving the n-th submission is the one built at startup, and
\* the history it gives the prompt holds the n-1 earlier turns.
C4_ChainBuiltOnce ==
    pc = "Running" => (chain_id = 1 /\ Len(prompt_history) = turns)

C10_ExportKept ==
    [][(pc = "Running" /\ (\/ last'.ev = "raised"
                           \/ last'.ev = "returned" /\ ~IsTabular(last'.response))) =>
          /\ export_data' = export_data
          /\ download_offered' = export_data.present]_vars

\* C10 witness: a table from an earlier turn is still the export source after
\* a failed turn.
C10_Witness ==
    /\ pc = "Idle" /\ last.ev = "raised"
    /\ export_data.present /\ download_offered
    /\ error_log # <<>>

----------------------------------------------------------------------------
(* Properties of the normaliser (checked under SpecNorm) *)

UniformMappings(v) ==
    /\ v.t \in {"list", "tuple"} /\ v.items # <<>>
    /\ \A i \in DOMAIN v.items :
          /\ v.items[i].t = "dict"
          /\ Range(DictKeys(v.items[i])) = Range(DictKeys(v.items[1]))

\* C6: a non-empty list or tuple of uniform mappings becomes a table with one
\* row per element and the first record's keys as its column set.
C6_RowsAndColumns ==
    (norm_out # Pending /\ UniformMappings(norm_in)) =>
        /\ norm_out.stored
        /\ Len(norm_out.df.rows) = Len(norm_in.items)
        /\ Range(norm_out.df.columns) = Range(DictKeys(norm_in.items[1]))

OneResponseCell(out) ==
    /\ out.exc = "" /\ out.stored
    /\ Len(out.df.rows) = 1
    /\ out.df.columns = <<"Response">>
    /\ \A i \in DOMAIN out.df.rows : Len(out.df.rows[i]) = 1

\* C7 as stated: every scalar, the falsy ones included, becomes one row with
\* the one column "Response".
C7_EveryScalarOneCell ==
    (norm_out # Pending /\ norm_in \in Scalars) => OneResponseCell(norm_out)

\* C7 amended: every truthy scalar becomes one row with the one column
\* "Response" holding its text; a falsy scalar gives no table.
C7_TruthyScalarOneCell ==
    (norm_out # Pending /\ norm_in \in Scalars) =>
        IF Truthy(norm_in)
        THEN OneResponseCell(norm_out) /\ norm_out.df.rows = << <<norm_in.s>> >>
        ELSE norm_out = NoTable

\* C7 witness: the integer 42 has been normalised.
C7_Witness == norm_in = PyInt("42") /\ norm_out.stored

----------------------------------------------------------------------------
(* Properties of the config loader (checked under SpecCfg) *)

AbsentKeys(file) == Range(required_keys) \ file.keys

\* C9: for an existing file lacking a non-empty set K of required keys, load
\* fails with the missing-keys error naming exactly K, each once, and returns
\* no settings.
C9_AllMissingKeysReported ==
    (cfg_out # CfgPending /\ cfg_file.exists /\ AbsentKeys(cfg_file) # {}) =>
        /\ cfg_out.status = "KeyError"
        /\ Range(cfg_out.missing) = AbsentKeys(cfg_file)
        /\ Len(cfg_out.missing) = Cardinality(AbsentKeys(cfg_file))
        /\ cfg_out.message = "[X] Missing keys in config file: "
                                 \o JoinWith(cfg_out.missing, ", ")
        /\ cfg_out.settings = {}

\* C9 witness: a file lacking exactly db_port and db_name has been loaded.
C9_Witness ==
    /\ cfg_file.exists
    /\ AbsentKeys(cfg_file) = {"db_port", "db_name"}
    /\ cfg_out.message = "[X] Missing keys in config file: db_port, db_name"

====
